---------------------------- MODULE Spec2Model ----------------------------
(***************************************************************************)
(* A model of the Python wrapper class IRBEM (python/IRBEM.py): the input  *)
(* normaliser (_prepMagInput, make_lstar, _prepTimeLoc), the field-tracing *)
(* adapter (trace_field_line), the field-line interpolator                 *)
(* (_interpolate_field_line), the two derived computations bounce_period   *)
(* and mirror_point_altitude, and the helper vparalel.                     *)
(*                                                                         *)
(* The compiled IRBEM library, scipy, numpy, ctypes and dateutil are       *)
(* outside the repository.  The library is an opaque engine whose outputs  *)
(* are chosen nondeterministically; the others are modelled by what their  *)
(* calls do on the values the wrapper hands them.  The arithmetic follows  *)
(* Python 3 (len(S)/2 is a true division).                                 *)
(***************************************************************************)
EXTENDS Integers, Sequences, FiniteSets, TLC

VARIABLES
    pc,          \* position of the call in progress: "idle", a step name, "done"
    op,          \* the public method called
    args,        \* the arguments of the call
    engineCalls, \* the engine's functions called so far, with what they were handed
    selfMag,     \* self.maginput
    lstarOut,    \* self.lstar1_output
    traceOut,    \* self.trace_field_line2_output
    fLine,       \* the dictionary _interpolate_field_line returns
    startInd,    \* local of bounce_period / mirror_point_altitude
    endInd,      \* local of bounce_period / mirror_point_altitude
    caught,      \* the exception the try block of the root search has caught
    warned,      \* warnings printed by the call
    err,         \* the exception the call has raised to its caller, or NoErr
    result       \* the value the call has returned, or NoResult

vars == <<pc, op, args, engineCalls, selfMag, lstarOut, traceOut, fLine,
          startInd, endInd, caught, warned, err, result>>

-----------------------------------------------------------------------------
(* Bounds of the model. *)

\* the most keys the caller puts in a maginput dictionary
MaxKeys == 2
\* the longest sequence the caller gives as a model input or a coordinate
MaxSeqLen == 3
\* the most samples of a traced field line the engine reports (besides SymN)
MaxN == 5
\* the largest field magnitude the engine reports in a short trace
MaxB == 3

-----------------------------------------------------------------------------
(* Program constants. *)

\* the dummy value of an unused model input, and of an output never written
Sentinel == -9999
\* the length of the ctypes buffer handed to the engine as maginput
MagRows == 25
\* the first dimension of posit and the length of blocal in trace_field_line
TraceCap == 3000
\* the default of the keyword argument R0
DefaultR0 == 1
\* the default of the keyword argument interpNum
DefaultInterpNum == 100000
\* make_lstar warns above this number of points
WarnPoints == 50000

orderedKeys ==
    <<"Kp", "Dst", "dens", "velo", "Pdyn", "ByIMF", "BzIMF", "G1", "G2",
      "G3", "W1", "W2", "W3", "W4", "W5", "W6", "AL">>

\* len(key) of a key of orderedKeys: the number of characters of its name
KeyNameLen(k) ==
    CASE k \in {"Kp", "G1", "G2", "G3", "W1", "W2", "W3", "W4", "W5", "W6", "AL"} -> 2
      [] k = "Dst" -> 3
      [] k \in {"dens", "velo", "Pdyn"} -> 4
      [] k \in {"ByIMF", "BzIMF"} -> 5

KeySet == {orderedKeys[i] : i \in 1..Len(orderedKeys)}

NoErr == "none"
NoResult == [kind |-> "none"]

-----------------------------------------------------------------------------
(* Python values.  A value is a record of its type (kind) and its data: a  *)
(* scalar carries one number, a sequence its elements, a string its        *)
(* characters.                                                             *)

ScalarKinds == {"int", "float", "npfloat"}
SeqKinds == {"list", "ndarray"}

Val(kind, data) == [kind |-> kind, data |-> data]

\* the value <<base, base+1, ...>> of n elements
Ramp(base, n) == [j \in 1..n |-> base + j - 1]

\* the values a caller gives for one model input
MagValues ==
    {Val("int", <<1>>), Val("float", <<2>>), Val("npfloat", <<3>>), Val("str", <<7>>)}
    \cup {Val(kd, Ramp(10, n)) : kd \in SeqKinds, n \in 1..MaxSeqLen}

\* Dictionaries keep insertion order: a sequence of (key, value) items.
Dict(items) == [none |-> FALSE, items |-> items]
NoneDict == [none |-> TRUE, items |-> <<>>]

DictKeys(d) == {d.items[j].k : j \in 1..Len(d.items)}
DictGet(d, key) == d.items[CHOOSE j \in 1..Len(d.items) : d.items[j].k = key].v

Min(S) == CHOOSE x \in S : \A y \in S : x <= y

\* the sequences of n distinct keys of orderedKeys
KeySeqs(n) == {s \in [1..n -> KeySet] : \A a, b \in 1..n : a # b => s[a] # s[b]}

-----------------------------------------------------------------------------
(* _prepMagInput *)

\* self.maginput before the first call of _prepMagInput
NoMag == [shape |-> "unset", vec |-> <<>>, mat |-> <<>>]

\* ctypes: whether  array[i] = v  stores v in an array of c_double (it takes
\* what float(v) takes: a number, or a numpy array of one element) or raises
\* TypeError
CDoubleAccepts(v) ==
    \/ v.kind \in ScalarKinds
    \/ v.kind = "ndarray" /\ Len(v.data) = 1

\* inputDict[key][dt] followed by the assignment of the element to a
\* c_double: the exception raised, or NoErr (dt counts from 0)
CellErr(v, dt) ==
    CASE v.kind \in {"int", "float"} -> "TypeError"
      [] v.kind = "npfloat" -> "IndexError"
      [] v.kind \in SeqKinds -> IF dt < Len(v.data) THEN NoErr ELSE "IndexError"
      [] v.kind = "str" -> IF dt < Len(v.data) THEN "TypeError" ELSE "IndexError"

\* magType = type(inputDict[list(inputDict.keys())[0]])
MagType(d) == d.items[1].v.kind

\* nTimePy = len(list(inputDict.keys())[0])
MagNTime(d) == KeyNameLen(d.items[1].k)

\* the branch "if inputDict == None": 25 dummy values
PrepNone ==
    [status |-> "ok", shape |-> "vector",
     vec |-> [i \in 1..MagRows |-> Sentinel], mat |-> <<>>]

\* the branch "elif magType in [int, float, np.float64]": the loop over
\* orderedKeys stops at the first value the buffer does not take; a new
\* ctypes array holds zeros
PrepScalar(d) ==
    LET nk == Len(orderedKeys)
        Has(i) == orderedKeys[i] \in DictKeys(d)
        Bad == {i \in 1..nk : Has(i) /\ ~CDoubleAccepts(DictGet(d, orderedKeys[i]))}
        stop == IF Bad = {} THEN nk + 1 ELSE Min(Bad)
    IN  [status |-> IF Bad = {} THEN "ok" ELSE "TypeError",
         shape |-> "vector",
         vec |-> [i \in 1..MagRows |->
                    IF i >= stop \/ i > nk THEN 0
                    ELSE IF Has(i) THEN DictGet(d, orderedKeys[i]).data[1]
                    ELSE Sentinel],
         mat |-> <<>>]

\* the branch "if magType in [np.ndarray, list]": 25 rows of nTimePy values,
\* filled key by key and time by time up to the first exception
PrepSeq(d) ==
    LET nk == Len(orderedKeys)
        n == MagNTime(d)
        Has(i) == orderedKeys[i] \in DictKeys(d)
        CellE(i, dt) == IF Has(i) THEN CellErr(DictGet(d, orderedKeys[i]), dt) ELSE NoErr
        Bad == {p \in 0..(nk * n - 1) : CellE((p \div n) + 1, p % n) # NoErr}
        stop == IF Bad = {} THEN nk * n ELSE Min(Bad)
    IN  [status |-> IF Bad = {} THEN "ok" ELSE CellE((stop \div n) + 1, stop % n),
         shape |-> "matrix",
         vec |-> <<>>,
         mat |-> [i \in 1..MagRows |-> [t \in 1..n |->
                    IF i > nk \/ (i - 1) * n + (t - 1) >= stop THEN 0
                    ELSE IF Has(i) THEN DictGet(d, orderedKeys[i]).data[t]
                    ELSE Sentinel]]]

\* _prepMagInput(inputDict): status is "ok" or the exception raised; the
\* buffer is the one left in self.maginput ("unset": the call raised before
\* it assigned self.maginput)
PrepMagInput(d) ==
    IF d.none THEN PrepNone
    ELSE IF Len(d.items) = 0
        THEN [status |-> "IndexError", shape |-> "unset", vec |-> <<>>, mat |-> <<>>]
    ELSE IF MagType(d) \in SeqKinds THEN PrepSeq(d)
    ELSE IF MagType(d) \in ScalarKinds THEN PrepScalar(d)
    ELSE [status |-> "TypeError", shape |-> "unset", vec |-> <<>>, mat |-> <<>>]

\* MagBuffer with the buffer allocated once and kept for later calls
MagBufferKept(r, old) ==
    IF r.shape = "unset" \/ old.shape # "unset" THEN old
    ELSE [shape |-> r.shape, vec |-> r.vec, mat |-> r.mat]

\* the buffer a call of _prepMagInput leaves in self.maginput
MagBuffer(r, old) ==
    IF r.shape = "unset" THEN old ELSE [shape |-> r.shape, vec |-> r.vec, mat |-> r.mat]

-----------------------------------------------------------------------------
(* make_lstar *)

\* what the caller gives as X['dateTime'], or as one element of it: a
\* datetime object, a string dateutil parses, a string it does not parse
TimeKinds == {"datetime", "str", "badstr"}

\* type(v) is list or type(v) is np.ndarray
IsSeq(v) == v.kind \in SeqKinds

\* lines 135-139: X2 with a non-sequence dateTime and the three coordinates
\* each put in a numpy array of one element
Wrapped(X) ==
    IF IsSeq(X.dateTime) THEN X
    ELSE [dateTime |-> Val("ndarray", <<X.dateTime.kind>>),
          x1 |-> Val("wrapped", <<X.x1>>),
          x2 |-> Val("wrapped", <<X.x2>>),
          x3 |-> Val("wrapped", <<X.x3>>)]

\* x[dt] = X2[key][dt] for a coordinate c and the buffer x of c_double:
\* the exception raised, or NoErr (dt counts from 0).  A scalar has no
\* items; np.array([c])[0] is c, as a numpy array when c is a sequence.
CoordErr(c, dt) ==
    CASE c.kind \in ScalarKinds -> "TypeError"
      [] c.kind \in SeqKinds -> IF dt < Len(c.data) THEN NoErr ELSE "IndexError"
      [] c.kind = "wrapped" ->
            IF dt >= 1 THEN "IndexError"
            ELSE IF Len(c.data[1].data) = 1 THEN NoErr
            ELSE "TypeError"

\* the number stored by x[dt] = X2[key][dt]
CoordAt(c, dt) ==
    IF c.kind = "wrapped" THEN c.data[1].data[1] ELSE c.data[dt + 1]

\* lines 149-154: the exception of the conversion of the times, or NoErr
TimesErr(tm) ==
    LET n == Len(tm.data)
        Bad == {j \in 1..n : tm.data[j] # "str"}
    IN  IF n = 0 THEN "IndexError"
        ELSE IF tm.data[1] = "datetime" THEN NoErr
        ELSE IF Bad = {} THEN NoErr
        ELSE IF tm.data[Min(Bad)] = "badstr" THEN "ValueError"
        ELSE "TypeError"

\* lines 172-178 at index dt: the exception raised, or NoErr
FillErr(X2, dt) ==
    IF X2.dateTime.data[1] = "datetime" /\ X2.dateTime.data[dt + 1] # "datetime"
        THEN "AttributeError"
    ELSE IF CoordErr(X2.x1, dt) # NoErr THEN CoordErr(X2.x1, dt)
    ELSE IF CoordErr(X2.x2, dt) # NoErr THEN CoordErr(X2.x2, dt)
    ELSE CoordErr(X2.x3, dt)

\* make_lstar up to the call of the engine: status is "ok" or the exception
\* raised; mag is what _prepMagInput did, when it was reached; ntime, x1, x2,
\* x3 are handed to the engine when status is "ok"
LstarPrep(X, maginput) ==
    LET X2 == Wrapped(X)
        n == Len(X2.dateTime.data)
        te == TimesErr(X2.dateTime)
        mag == PrepMagInput(maginput)
        Bad == {dt \in 0..(n - 1) : FillErr(X2, dt) # NoErr}
        none == [status |-> "skipped", shape |-> "unset", vec |-> <<>>, mat |-> <<>>]
        Out(st, m) ==
            [status |-> st, mag |-> m, ntime |-> n,
             x1 |-> IF st = "ok" THEN [j \in 1..n |-> CoordAt(X2.x1, j - 1)] ELSE <<>>,
             x2 |-> IF st = "ok" THEN [j \in 1..n |-> CoordAt(X2.x2, j - 1)] ELSE <<>>,
             x3 |-> IF st = "ok" THEN [j \in 1..n |-> CoordAt(X2.x3, j - 1)] ELSE <<>>]
    IN  IF te # NoErr THEN Out(te, none)
        ELSE IF mag.status # "ok" THEN Out(mag.status, mag)
        ELSE IF Bad # {} THEN Out(FillErr(X2, Min(Bad)), mag)
        ELSE Out("ok", mag)

\* XAfterCopy with X2 bound to the caller's dictionary itself
XWithoutCopy(X) == Wrapped(X)

\* line 130 and lines 135-139: X2 = copy.deepcopy(X) shares nothing with X,
\* so the assignments to X2's keys leave the caller's X as it was
XAfterCopy(X) == X

\* the warning of lines 142-144
LstarWarnings(X) ==
    IF Len(Wrapped(X).dateTime.data) > WarnPoints THEN {"points"} ELSE {}

\* what the engine is handed by one call
EngineCall(fn, ntime, x1, x2, x3, mag, R0) ==
    [fn |-> fn, ntime |-> ntime, x1 |-> x1, x2 |-> x2, x3 |-> x3,
     maginput |-> mag, R0 |-> R0]

-----------------------------------------------------------------------------
(* The specification of _prepMagInput called on its own. *)

NoLstar == [set |-> FALSE, blocal |-> 0, nan |-> FALSE]
NoTrace == [set |-> FALSE, Nposit |-> 0, blocal |-> <<>>, nan |-> FALSE, npos |-> 0]
NoLine == [set |-> FALSE]
Undefined == [def |-> FALSE, q |-> 0]

Untouched ==
    /\ engineCalls = <<>>
    /\ lstarOut = NoLstar
    /\ traceOut = NoTrace
    /\ fLine = NoLine
    /\ startInd = Undefined
    /\ endInd = Undefined
    /\ caught = NoErr
    /\ warned = {}

InitMag ==
    /\ pc = "idle"
    /\ op = "_prepMagInput"
    /\ \E n \in 0..MaxKeys : \E ks \in KeySeqs(n) : \E vs \in [1..n -> MagValues] :
          args \in {[inputDict |-> NoneDict],
                    [inputDict |-> Dict([j \in 1..n |-> [k |-> ks[j], v |-> vs[j]]])]}
    /\ selfMag = NoMag
    /\ err = NoErr
    /\ result = NoResult
    /\ Untouched

CallPrepMagInput ==
    /\ pc = "idle"
    /\ op = "_prepMagInput"
    /\ LET r == PrepMagInput(args.inputDict)
       IN  /\ selfMag' = MagBuffer(r, selfMag)
           /\ err' = IF r.status = "ok" THEN NoErr ELSE r.status
           /\ result' = IF r.status = "ok"
                          THEN [kind |-> "maginput", buf |-> MagBuffer(r, selfMag)]
                          ELSE NoResult
    /\ pc' = "done"
    /\ UNCHANGED <<op, args, engineCalls, lstarOut, traceOut, fLine, startInd,
                   endInd, caught, warned>>

NextMag == CallPrepMagInput

SpecMag == InitMag /\ [][NextMag]_vars

-----------------------------------------------------------------------------
(* The specification of make_lstar called on its own. *)

\* the maginput arguments of the calls that reach the engine: None, one
\* scalar model input, and one of a type _prepMagInput rejects
CallMagInputs ==
    {NoneDict,
     Dict(<<[k |-> "Kp", v |-> Val("int", <<1>>)]>>),
     Dict(<<[k |-> "Kp", v |-> Val("str", <<7>>)]>>)}

\* the values a caller gives for X['dateTime']
DateTimes ==
    {Val(k, <<>>) : k \in TimeKinds}
    \cup UNION {{Val("list", tm) : tm \in [1..n -> TimeKinds]} : n \in 0..MaxSeqLen}

\* the values a caller gives for a coordinate: a number, or a list
Coords(base) ==
    {Val("float", <<base>>)} \cup {Val("list", Ramp(base, n)) : n \in 0..MaxSeqLen}

\* the field magnitudes the engine reports at the input point
LstarBs == 2..MaxB

InitLstar ==
    /\ pc = "idle"
    /\ op = "make_lstar"
    /\ \E tm \in DateTimes, c1 \in Coords(10), c2 \in Coords(20), c3 \in Coords(30),
          d \in CallMagInputs, sf \in BOOLEAN :
          args = [X |-> [dateTime |-> tm, x1 |-> c1, x2 |-> c2, x3 |-> c3],
                  maginput |-> d, STATUS_FLAG |-> sf]
    /\ selfMag = NoMag
    /\ err = NoErr
    /\ result = NoResult
    /\ Untouched

\* make_lstar(X, maginput): the normalisation, the call of make_lstar1_ and
\* the outputs the engine wrote (b: blocal[0], bn: whether it is not a number)
MakeLstar(X, maginput, b, bn) ==
    LET r == LstarPrep(X, maginput)
    IN  /\ args' = [args EXCEPT !.X = XAfterCopy(X)]
        /\ warned' = warned \cup LstarWarnings(X)
        /\ selfMag' = MagBuffer(r.mag, selfMag)
        /\ IF r.status = "ok"
             THEN /\ engineCalls' = Append(engineCalls,
                        EngineCall("make_lstar1_", r.ntime, r.x1, r.x2, r.x3,
                                   MagBuffer(r.mag, selfMag), 0))
                  /\ lstarOut' = [set |-> TRUE, blocal |-> b, nan |-> bn]
             ELSE UNCHANGED <<engineCalls, lstarOut>>

CallMakeLstar ==
    /\ pc = "idle"
    /\ op = "make_lstar"
    /\ \E b \in LstarBs, bn \in BOOLEAN :
          /\ MakeLstar(args.X, args.maginput, b, bn)
          /\ LET r == LstarPrep(args.X, args.maginput)
             IN  /\ err' = IF r.status = "ok" THEN NoErr ELSE r.status
                 /\ result' = IF r.status = "ok"
                                THEN [kind |-> "lstar1_output", blocal |-> b, nan |-> bn]
                                ELSE NoResult
    /\ pc' = "done"
    /\ UNCHANGED <<op, traceOut, fLine, startInd, endInd, caught>>

NextLstar == CallMakeLstar

SpecLstar == InitLstar /\ [][NextLstar]_vars

-----------------------------------------------------------------------------
(* trace_field_line *)

\* _prepTimeLoc(Xloc): the exception raised, or NoErr.  The time is a
\* datetime or is handed to dateutil.parser.parse, which takes a string;
\* ctypes.c_double takes a number.
TimeLocErr(X) ==
    IF X.dateTime.kind = "badstr" THEN "ValueError"
    ELSE IF X.dateTime.kind \notin {"datetime", "str"} THEN "TypeError"
    ELSE IF \E c \in {X.x1, X.x2, X.x3} : c.kind \notin ScalarKinds THEN "TypeError"
    ELSE NoErr

\* trace_field_line up to the call of the engine (lines 370-374)
TracePrep(X, maginput) ==
    LET mag == PrepMagInput(maginput)
    IN  [status |-> IF mag.status # "ok" THEN mag.status
                    ELSE IF TimeLocErr(X) # NoErr THEN TimeLocErr(X)
                    ELSE "ok",
         mag |-> mag]

\* PySliceLen with a negative n taken as no element
PySliceLenNoWrap(cap, n) ==
    IF n >= 0 THEN (IF n <= cap THEN n ELSE cap) ELSE 0

\* len(a[:n]) for a Python sequence a of length cap
PySliceLen(cap, n) ==
    IF n >= 0 THEN (IF n <= cap THEN n ELSE cap)
    ELSE (IF cap + n >= 0 THEN cap + n ELSE 0)

\* entry i (from 1) of an output buffer of which the engine wrote the
\* entries w: ctypes creates the buffer filled with zeros
BufferAt(w, i) == IF i <= Len(w) THEN w[i] ELSE 0

\* lines 398-400: the dictionary trace_field_line returns, for the Nposit
\* and the blocal entries w the engine wrote (nan: some entry is not a number)
TraceOutput(nposit, w, nan) ==
    [set |-> TRUE,
     Nposit |-> nposit,
     blocal |-> [i \in 1..PySliceLen(TraceCap, nposit) |-> BufferAt(w, i)],
     npos |-> PySliceLen(TraceCap, nposit),
     nan |-> nan]

\* the field magnitude along a short traced line differs from the one at
\* the input point by one of these
Deviations == {-1, 0, 1}

\* the synthetic symmetric field line of the specification's scenario:
\* 50 samples, arc indices 0..49, deficit(s) = -(s-25)^2 + 625
SymDeficit(s) == 625 - (s - 25) * (s - 25)
SymTrace(b) == [j \in 1..50 |-> b + SymDeficit(j - 1)]

\* what the engine may report for a field line through a point of field
\* magnitude b: an open line, a line of 3..MaxN samples, a line with a
\* sample that is not a number, the synthetic line, and a count above the
\* capacity of the buffers or below zero with MaxN entries written
EngineTraces(b) ==
    {[Nposit |-> Sentinel, w |-> <<>>, nan |-> FALSE]}
    \cup UNION {{[Nposit |-> n, w |-> [j \in 1..n |-> b + dv[j]], nan |-> FALSE] :
                    dv \in [1..n -> Deviations]} : n \in 3..MaxN}
    \cup {[Nposit |-> MaxN, w |-> [j \in 1..MaxN |-> b], nan |-> TRUE]}
    \cup {[Nposit |-> 50, w |-> SymTrace(b), nan |-> FALSE]}
    \cup {[Nposit |-> n, w |-> [j \in 1..MaxN |-> b], nan |-> FALSE] :
                n \in {TraceCap + 1, -1}}

\* trace_field_line(X, maginput, R0): the normalisation, the call of
\* trace_field_line2_1_ with self.maginput and the dictionary built from what
\* the engine wrote, one of traces
TraceFieldLine(X, maginput, R0, traces) ==
    LET r == TracePrep(X, maginput)
        mag == MagBuffer(r.mag, selfMag)
    IN  /\ selfMag' = mag
        /\ IF r.status = "ok"
             THEN \E tr \in traces :
                     /\ engineCalls' = Append(engineCalls,
                           EngineCall("trace_field_line2_1_", 1,
                                      <<X.x1.data[1]>>, <<X.x2.data[1]>>,
                                      <<X.x3.data[1]>>, mag, R0))
                     /\ traceOut' = TraceOutput(tr.Nposit, tr.w, tr.nan)
             ELSE UNCHANGED <<engineCalls, traceOut>>

-----------------------------------------------------------------------------
(* _interpolate_field_line *)

\* the R0 that line 664 hands to trace_field_line for the caller's R0: the
\* call names X, maginput and STATUS_FLAG only, so the parameter R0 of
\* trace_field_line takes its default
TraceR0(R0) == DefaultR0

\* IsOpen comparing with another sentinel
IsOpenOtherSentinel(out) == out.Nposit = -1

\* line 665
IsOpen(out) == out.Nposit = Sentinel

\* lines 672-676: the samples the interpolant of fB is built on
Deficits(out, inputblocal) ==
    [i \in 1..PySliceLen(Len(out.blocal), out.Nposit) |-> out.blocal[i] - inputblocal]

\* scipy.interpolate.interp1d(kind = 'cubic') needs 4 points
CubicMin == 4

\* Arc positions are counted in quarters of an index: sample i (from 0) is
\* at 4*i, len(S)/2 at 2*N, len(S)-1 at 4*(N-1).
MidPos(N) == 2 * N
LastPos(N) == 4 * (N - 1)

\* the values fLine['fB'](len(S)/2) may take: the sample there when the
\* number of samples is even; between two samples, whatever the cubic gives
MidValues(fB) ==
    IF Len(fB) % 2 = 0 THEN {fB[(Len(fB) \div 2) + 1]} ELSE Deviations

\* fLine['fB'](s) at a sample or at len(S)/2
F(fl, q) == IF q = MidPos(fl.N) THEN fl.mid ELSE fl.fB[(q \div 4) + 1]

\* the positions of [a, b] where the model knows the interpolant's value
Known(fl, a, b) == {q \in a..b : q % 4 = 0 \/ q = MidPos(fl.N)}

\* roots of the interpolant strictly inside (a, b): a zero sample, or a
\* point between two neighbouring known values of opposite signs
Roots(fl, a, b) ==
    LET K == Known(fl, a, b)
        Adjacent(p1, p2) == p1 < p2 /\ ~ \E p3 \in K : p1 < p3 /\ p3 < p2
    IN  {q \in K : a < q /\ q < b /\ F(fl, q) = 0}
        \cup {(pr[1] + pr[2]) \div 2 :
                pr \in {x \in K \X K : /\ Adjacent(x[1], x[2])
                                       /\ F(fl, x[1]) * F(fl, x[2]) < 0}}

\* the messages of the ValueError scipy.optimize.brentq raises
SignMsg == "f(a) and f(b) must have different signs"
NaNMsg == "The function value at x is NaN; solver cannot continue."

\* scipy.optimize.brentq(fLine['fB'], a, b): the outcomes.  A value that is
\* not a number raises; a zero at an end of the bracket is returned, a first;
\* ends of one sign raise; otherwise a root inside the bracket is returned.
Brentq(fl, a, b) ==
    IF fl.nan THEN {[exc |-> NaNMsg, q |-> 0]}
    ELSE IF F(fl, a) = 0 THEN {[exc |-> NoErr, q |-> a]}
    ELSE IF F(fl, b) = 0 THEN {[exc |-> NoErr, q |-> b]}
    ELSE IF F(fl, a) * F(fl, b) > 0 THEN {[exc |-> SignMsg, q |-> 0]}
    ELSE {[exc |-> NoErr, q |-> q] : q \in Roots(fl, a, b)}

\* LowBracket reaching to the end of the line
LowBracketToEnd(N) == <<0, LastPos(N)>>

\* HighBracket a copy of the first bracket
HighBracketCopied(N) == <<0, MidPos(N)>>

\* the brackets of lines 473-476 and 535-538
LowBracket(N) == <<0, MidPos(N)>>
HighBracket(N) == <<MidPos(N), LastPos(N)>>

\* HandlerRaises with mirror_point_altitude raising under STATUS_FLAG only
HandlerRaisesIfVerbose(method, STATUS_FLAG, msg) ==
    msg = SignMsg /\ (method = "mirror_point_altitude" => STATUS_FLAG)

\* lines 477-481 and 539-546: whether the handler of ValueError raises the
\* mirror point error for the exception it caught
HandlerRaises(method, STATUS_FLAG, msg) == msg = SignMsg

-----------------------------------------------------------------------------
(* beta and vparalel (lines 690-692), and the sum of bounce_period.  The   *)
(* values are numpy's: a division by zero gives an infinity or, for 0/0,   *)
(* a value that is not a number, and so does the root of a negative.       *)

Abs(x) == IF x < 0 THEN -x ELSE x

\* beta(Ek) for Ek >= 0 and the default Erest: sqrt(1 - (Ek/Erest + 1)^-2)
\* is zero for Ek = 0 and positive below 1 otherwise
Beta(Ek) == IF Ek = 0 THEN "zero" ELSE "pos"

\* the sign of 1 - np.abs(B/Bm), the quantity vparalel takes the root of
UnderRoot(Bm, B) ==
    IF Bm = 0 THEN (IF B = 0 THEN "nan" ELSE "neg")
    ELSE IF Abs(B) < Abs(Bm) THEN "pos"
    ELSE IF Abs(B) = Abs(Bm) THEN "zero"
    ELSE "neg"

\* vparalel(Ek, Bm, B) = c*beta(Ek)*np.sqrt(1 - np.abs(B/Bm)): what is under
\* the root, and the value ("nan": not a number)
Vparalel(Ek, Bm, B) ==
    [under |-> UnderRoot(Bm, B),
     v |-> IF UnderRoot(Bm, B) \in {"neg", "nan"} THEN "nan"
           ELSE IF UnderRoot(Bm, B) = "zero" \/ Beta(Ek) = "zero" THEN "zero"
           ELSE "pos"]

\* ResampleWarning comparing the other way round
ResampleWarningWhenFiner(N, interpNum) == interpNum > N

\* line 484: whether bounce_period prints its warning, for a line of N
\* samples
ResampleWarning(N, interpNum) == N > interpNum

\* line 487, sInterp = np.linspace(a, b, num) without its two ends (the
\* [1:-1] of lines 498-502): the positions where the model knows the
\* interpolant that a resampled point falls on, or falls next to when the
\* resampled points are less than a sixteenth of a sample apart (the cubic
\* keeps the sign of a non-zero sample that near to it)
Resampled(fl, a, b, num) ==
    {q \in Known(fl, a, b) :
        /\ a < q /\ q < b
        /\ \/ ((q - a) * (num - 1)) % (b - a) = 0
           \/ num - 1 >= 4 * (b - a)}

\* lines 494-502 for one energy: 2*np.sum(ds[1:-1]/vparalel(Ek, inputB,
\* dB)[1:-1]), kept as what it is computed from; nan: a divisor at a position
\* of Resampled is not a number, and so is the sum
BounceSum(fl, a, b, num, Ek) ==
    [Ek |-> Ek, from |-> a, to |-> b, num |-> num,
     nan |-> \E q \in Resampled(fl, a, b, num) :
                Vparalel(Ek, fl.inputB, F(fl, q) + fl.inputB).v = "nan"]

\* TbList with every element computed for the first energy
TbListOfFirst(fl, a, b, num, E) ==
    [i \in 1..Len(E.data) |-> BounceSum(fl, a, b, num, E.data[1])]

\* lines 498-499: the list comprehension over the energies
TbList(fl, a, b, num, E) ==
    [i \in 1..Len(E.data) |-> BounceSum(fl, a, b, num, E.data[i])]

\* lines 497-503: self.Tb, a list for a list or an array of energies
Tb(fl, a, b, num, E) ==
    IF IsSeq(E)
        THEN [kind |-> "Tb", seq |-> TRUE, Tb |-> TbList(fl, a, b, num, E)]
        ELSE [kind |-> "Tb", seq |-> FALSE, Tb |-> BounceSum(fl, a, b, num, E.data[1])]

-----------------------------------------------------------------------------
(* The specification of vparalel called on its own. *)

\* the energies (keV) and the field magnitudes vparalel is called with
Energies == {0, 100, 200}
Fields == (-(MaxB + 1))..(MaxB + 1)

InitV ==
    /\ pc = "idle"
    /\ op = "vparalel"
    /\ \E Ek \in Energies, Bm \in Fields, B \in Fields :
          args = [Ek |-> Ek, Bm |-> Bm, B |-> B]
    /\ selfMag = NoMag
    /\ err = NoErr
    /\ result = NoResult
    /\ Untouched

CallVparalel ==
    /\ pc = "idle"
    /\ op = "vparalel"
    /\ result' = [kind |-> "vparalel",
                  under |-> Vparalel(args.Ek, args.Bm, args.B).under,
                  v |-> Vparalel(args.Ek, args.Bm, args.B).v]
    /\ pc' = "done"
    /\ UNCHANGED <<op, args, engineCalls, selfMag, lstarOut, traceOut, fLine,
                   startInd, endInd, caught, warned, err>>

NextV == CallVparalel

SpecV == InitV /\ [][NextV]_vars

-----------------------------------------------------------------------------
(* The specification of bounce_period and mirror_point_altitude. *)

\* the X of a call: a single point with the time as a datetime, as a
\* string, as a string that is no date, and a list of one point
CallXs ==
    {[dateTime |-> Val(k, <<>>), x1 |-> Val("float", <<10>>),
      x2 |-> Val("float", <<20>>), x3 |-> Val("float", <<30>>)] : k \in TimeKinds}
    \cup {[dateTime |-> Val("list", <<"str">>), x1 |-> Val("list", <<10>>),
           x2 |-> Val("list", <<20>>), x3 |-> Val("list", <<30>>)]}

\* the R0 and the interpNum of a call: the default and another value (for
\* interpNum, one no line of the model has fewer samples than)
CallR0s == {DefaultR0, DefaultR0 + 1}
CallInterpNums == {CubicMin, DefaultInterpNum}

\* the E of a call of bounce_period: one energy (keV), a list of two and an
\* array of two
CallEnergies ==
    {Val("float", <<100>>), Val("list", <<100, 200>>), Val("ndarray", <<200, 100>>)}

Init ==
    /\ pc = "idle"
    /\ op \in {"bounce_period", "mirror_point_altitude"}
    /\ \E X \in CallXs, d \in CallMagInputs, r0 \in CallR0s, sf \in BOOLEAN,
          num \in CallInterpNums, E \in CallEnergies :
          /\ op = "mirror_point_altitude" =>
                (num = DefaultInterpNum /\ E = Val("float", <<100>>))
          /\ args = [X |-> X, maginput |-> d, R0 |-> r0, STATUS_FLAG |-> sf,
                     interpNum |-> num, E |-> E]
    /\ selfMag = NoMag
    /\ err = NoErr
    /\ result = NoResult
    /\ Untouched

Raise(e) ==
    /\ err' = e
    /\ pc' = "done"

\* lines 467 and 529: the method enters _interpolate_field_line
Enter ==
    /\ pc = "idle"
    /\ op \in {"bounce_period", "mirror_point_altitude"}
    /\ pc' = "lstar"
    /\ UNCHANGED <<op, args, engineCalls, selfMag, lstarOut, traceOut, fLine,
                   startInd, endInd, caught, warned, err, result>>

\* lines 660-662: make_lstar on a copy of X
LstarStep ==
    /\ pc = "lstar"
    /\ \E b \in LstarBs : MakeLstar(args.X, args.maginput, b, FALSE)
    /\ LET r == LstarPrep(args.X, args.maginput)
       IN  IF r.status = "ok"
             THEN pc' = "trace" /\ UNCHANGED err
             ELSE Raise(r.status)
    /\ UNCHANGED <<op, traceOut, fLine, startInd, endInd, caught, result>>

\* line 664: trace_field_line
TraceStep ==
    /\ pc = "trace"
    /\ TraceFieldLine(args.X, args.maginput, TraceR0(args.R0),
                      EngineTraces(lstarOut.blocal))
    /\ IF TracePrep(args.X, args.maginput).status = "ok"
         THEN pc' = "interp" /\ UNCHANGED err
         ELSE Raise(TracePrep(args.X, args.maginput).status)
    /\ UNCHANGED <<op, args, lstarOut, fLine, startInd, endInd, caught, warned, result>>

\* InterpStep tracing the line once more when it came back open
InterpStepRetrying ==
    /\ pc = "interp"
    /\ IF IsOpen(traceOut)
         THEN /\ IF Len(engineCalls) < 3
                   THEN pc' = "trace" /\ UNCHANGED err
                   ELSE Raise("OpenFieldLine")
              /\ UNCHANGED fLine
         ELSE LET fB == Deficits(traceOut, lstarOut.blocal)
                  N == Len(fB)
              IN  IF N < CubicMin
                    THEN Raise("InsufficientSamples") /\ UNCHANGED fLine
                    ELSE /\ \E m \in MidValues(fB) :
                              fLine' = [set |-> TRUE, N |-> N, fB |-> fB, mid |-> m,
                                        nan |-> traceOut.nan \/ lstarOut.nan,
                                        inputB |-> lstarOut.blocal]
                         /\ pc' = "rootLow"
                         /\ UNCHANGED err
    /\ UNCHANGED <<op, args, engineCalls, selfMag, lstarOut, traceOut, startInd,
                   endInd, caught, warned, result>>

\* lines 665-680: the open line check and the interpolants.  At len(S)/2 an
\* odd number of samples leaves the cubic's value to the interpolation.
InterpStep ==
    /\ pc = "interp"
    /\ IF IsOpen(traceOut)
         THEN Raise("OpenFieldLine") /\ UNCHANGED fLine
         ELSE LET fB == Deficits(traceOut, lstarOut.blocal)
                  N == Len(fB)
              IN  IF N < CubicMin
                    THEN Raise("InsufficientSamples") /\ UNCHANGED fLine
                    ELSE /\ \E m \in MidValues(fB) :
                              fLine' = [set |-> TRUE, N |-> N, fB |-> fB, mid |-> m,
                                        nan |-> traceOut.nan \/ lstarOut.nan,
                                        inputB |-> lstarOut.blocal]
                         /\ pc' = "rootLow"
                         /\ UNCHANGED err
    /\ UNCHANGED <<op, args, engineCalls, selfMag, lstarOut, traceOut, startInd,
                   endInd, caught, warned, result>>

\* lines 473-474 and 535-536: the first root search of the try block
RootLow ==
    /\ pc = "rootLow"
    /\ \E o \in Brentq(fLine, LowBracket(fLine.N)[1], LowBracket(fLine.N)[2]) :
          IF o.exc = NoErr
            THEN /\ startInd' = [def |-> TRUE, q |-> o.q]
                 /\ pc' = "rootHigh"
                 /\ UNCHANGED caught
            ELSE /\ caught' = o.exc
                 /\ pc' = "except"
                 /\ UNCHANGED startInd
    /\ UNCHANGED <<op, args, engineCalls, selfMag, lstarOut, traceOut, fLine,
                   endInd, warned, err, result>>

\* lines 475-476 and 537-538: the second root search of the try block
RootHigh ==
    /\ pc = "rootHigh"
    /\ \E o \in Brentq(fLine, HighBracket(fLine.N)[1], HighBracket(fLine.N)[2]) :
          IF o.exc = NoErr
            THEN /\ endInd' = [def |-> TRUE, q |-> o.q]
                 /\ pc' = "post"
                 /\ UNCHANGED caught
            ELSE /\ caught' = o.exc
                 /\ pc' = "except"
                 /\ UNCHANGED endInd
    /\ UNCHANGED <<op, args, engineCalls, selfMag, lstarOut, traceOut, fLine,
                   startInd, warned, err, result>>

\* lines 477-481 and 539-546: the handler raises for the message it knows,
\* and ends without raising for any other ValueError
Except ==
    /\ pc = "except"
    /\ IF HandlerRaises(op, args.STATUS_FLAG, caught)
         THEN Raise("MirrorBelowGround")
         ELSE pc' = "post" /\ UNCHANGED err
    /\ UNCHANGED <<op, args, engineCalls, selfMag, lstarOut, traceOut, fLine,
                   startInd, endInd, caught, warned, result>>

\* lines 483-503: the warning, the resampling between startInd and endInd
\* and the sum; reading a local never assigned raises UnboundLocalError
BounceRest ==
    /\ pc = "post"
    /\ op = "bounce_period"
    /\ warned' = warned \cup (IF ResampleWarning(fLine.N, args.interpNum)
                                 THEN {"resample"} ELSE {})
    /\ IF startInd.def /\ endInd.def
         THEN /\ result' = Tb(fLine, startInd.q, endInd.q, args.interpNum, args.E)
              /\ pc' = "done"
              /\ UNCHANGED err
         ELSE Raise("UnboundLocalError") /\ UNCHANGED result
    /\ UNCHANGED <<op, args, engineCalls, selfMag, lstarOut, traceOut, fLine,
                   startInd, endInd, caught>>

\* lines 551-556: the root whose altitude is returned, for zpos the
\* outcome of fLine['fz'](startInd) > 0
MirrorRoot(zpos) == IF zpos THEN "high" ELSE "low"

\* the root that is the input point itself (the deficit is zero there): the
\* low one when the input point lies in the hemisphere of the low root
OwnRoot(zpos, inputNorth) == IF inputNorth = zpos THEN "low" ELSE "high"

\* lines 548-557: the altitude at endInd when fz(startInd) > 0, at startInd
\* otherwise.  The positions are not kept in traceOut: the sign of z at
\* startInd and the hemisphere of the input point are drawn here, where the
\* first is read.
MirrorRest ==
    /\ pc = "post"
    /\ op = "mirror_point_altitude"
    /\ IF startInd.def /\ endInd.def
         THEN /\ \E zpos \in BOOLEAN, inputNorth \in BOOLEAN :
                    result' = [kind |-> "mirrorAlt",
                               root |-> MirrorRoot(zpos),
                               at |-> IF MirrorRoot(zpos) = "high"
                                        THEN endInd.q ELSE startInd.q,
                               zStartPos |-> zpos,
                               own |-> OwnRoot(zpos, inputNorth)]
              /\ pc' = "done"
              /\ UNCHANGED err
         ELSE Raise("UnboundLocalError") /\ UNCHANGED result
    /\ UNCHANGED <<op, args, engineCalls, selfMag, lstarOut, traceOut, fLine,
                   startInd, endInd, caught, warned>>

Next ==
    \/ Enter
    \/ LstarStep
    \/ TraceStep
    \/ InterpStep
    \/ RootLow
    \/ RootHigh
    \/ Except
    \/ BounceRest
    \/ MirrorRest

Spec == Init /\ [][Next]_vars

-----------------------------------------------------------------------------
(* The specification of calls of make_lstar and trace_field_line made one  *)
(* after another on one instance: the attributes the calls store           *)
(* (self.maginput, self.lstar1_output, self.trace_field_line2_output) stay *)
(* from call to call.                                                      *)

\* the lines the engine reports to these calls, whose outcome does not turn
\* on the shape of the line: of the lines of EngineTraces, the open one and
\* those of one field magnitude at every sample
FlatTraces ==
    UNION {{tr \in EngineTraces(b) :
                \A i, j \in 1..Len(tr.w) : tr.w[i] = tr.w[j]} : b \in LstarBs}

CallTraceFieldLine ==
    /\ pc = "idle"
    /\ op = "trace_field_line"
    /\ TraceFieldLine(args.X, args.maginput, args.R0, FlatTraces)
    /\ LET r == TracePrep(args.X, args.maginput)
       IN  /\ err' = IF r.status = "ok" THEN NoErr ELSE r.status
           /\ result' = IF r.status = "ok"
                          THEN [kind |-> "trace_field_line2_output", out |-> traceOut']
                          ELSE NoResult
    /\ pc' = "done"
    /\ UNCHANGED <<op, args, lstarOut, fLine, startInd, endInd, caught, warned>>

\* the arguments of a call of make_lstar or of trace_field_line
CallArgs(o) ==
    IF o = "make_lstar"
        THEN {[X |-> X, maginput |-> d, STATUS_FLAG |-> FALSE] :
                X \in CallXs, d \in CallMagInputs}
        ELSE {[X |-> X, maginput |-> d, R0 |-> r0, STATUS_FLAG |-> FALSE] :
                X \in CallXs, d \in CallMagInputs, r0 \in CallR0s}

InitCalls ==
    /\ pc = "idle"
    /\ op \in {"make_lstar", "trace_field_line"}
    /\ args \in CallArgs(op)
    /\ selfMag = NoMag
    /\ err = NoErr
    /\ result = NoResult
    /\ Untouched

\* the call has returned or raised, and the caller makes another call on
\* the instance: engineCalls and warned start again for the new call
Return ==
    /\ pc = "done"
    /\ pc' = "idle"
    /\ op' \in {"make_lstar", "trace_field_line"}
    /\ args' \in CallArgs(op')
    /\ engineCalls' = <<>>
    /\ warned' = {}
    /\ err' = NoErr
    /\ result' = NoResult
    /\ UNCHANGED <<selfMag, lstarOut, traceOut, fLine, startInd, endInd, caught>>

NextCalls ==
    \/ CallMakeLstar
    \/ CallTraceFieldLine
    \/ Return

SpecCalls == InitCalls /\ [][NextCalls]_vars

-----------------------------------------------------------------------------
(* The claims about bounce_period and mirror_point_altitude, checked under *)
(* Spec.                                                                   *)

\* C1: once the trace reports Nposit = -9999, no interpolant is built, no
\* root is searched and nothing is returned, and the call ends by raising
\* the open field line error.
C1_OpenLineRaises ==
    (traceOut.set /\ traceOut.Nposit = Sentinel) =>
        /\ pc \in {"interp", "done"}
        /\ fLine = NoLine
        /\ ~startInd.def /\ ~endInd.def
        /\ caught = NoErr
        /\ result = NoResult
        /\ pc = "done" => err = "OpenFieldLine"

\* C1, reached: a call that traced an open line has raised the open field
\* line error.
C1_OpenLineRaised ==
    /\ pc = "done"
    /\ traceOut.set /\ traceOut.Nposit = Sentinel
    /\ err = "OpenFieldLine"

\* fB has one strict sign at both ends of the bracket br
NoSignChange(fl, br) == F(fl, br[1]) * F(fl, br[2]) > 0

\* C2: when fB (a number at each end) has no sign change over [0, N/2] or
\* none over [N/2, N-1], the call ends by raising the mirror point error and
\* returns nothing, in both methods and for both values of STATUS_FLAG.
C2_NoSignChangeRaises ==
    (/\ pc = "done"
     /\ fLine.set
     /\ ~fLine.nan
     /\ \/ NoSignChange(fLine, LowBracket(fLine.N))
        \/ NoSignChange(fLine, HighBracket(fLine.N))) =>
        (err = "MirrorBelowGround" /\ result = NoResult)

\* C2, reached: mirror_point_altitude without STATUS_FLAG found sLow, found
\* no sign change over [N/2, N-1] and has raised the mirror point error.
C2_QuietMirrorRaised ==
    /\ pc = "done"
    /\ op = "mirror_point_altitude"
    /\ ~args.STATUS_FLAG
    /\ fLine.set
    /\ startInd.def
    /\ NoSignChange(fLine, HighBracket(fLine.N))
    /\ err = "MirrorBelowGround"

\* C3: an exception of a root search reaches the caller (the missing sign
\* change as the mirror point error, any other as itself), and the method
\* never goes on past the try block after a failed root search.
C3_ErrorsSurface ==
    caught # NoErr =>
        /\ pc \in {"except", "done"}
        /\ pc = "done" =>
              err = (IF caught = SignMsg THEN "MirrorBelowGround" ELSE caught)

\* C4 as claimed: when both root searches return, sLow < N/2 <= sHigh, with
\* sLow in [0, N/2] and sHigh in [N/2, N-1].
C4_BracketStrict ==
    (startInd.def /\ endInd.def) =>
        /\ 0 <= startInd.q /\ startInd.q < MidPos(fLine.N)
        /\ MidPos(fLine.N) <= endInd.q /\ endInd.q <= LastPos(fLine.N)

\* C4 as amended: when both root searches return, sLow <= N/2 <= sHigh, with
\* sLow in [0, N/2] and sHigh in [N/2, N-1]; and sLow = sHigh = N/2 when the
\* deficit is zero at N/2 and not at index 0.
C4_BracketOrdered ==
    (startInd.def /\ endInd.def) =>
        /\ 0 <= startInd.q /\ startInd.q <= MidPos(fLine.N)
        /\ MidPos(fLine.N) <= endInd.q /\ endInd.q <= LastPos(fLine.N)
        /\ (F(fLine, MidPos(fLine.N)) = 0 /\ F(fLine, 0) # 0) =>
              (startInd.q = MidPos(fLine.N) /\ endInd.q = MidPos(fLine.N))

\* C4, reached: a call has returned with the deficit zero at N/2 and
\* sLow = N/2.
C4_BracketAtMidpoint ==
    /\ pc = "done"
    /\ result # NoResult
    /\ fLine.N >= CubicMin
    /\ startInd.def /\ endInd.def
    /\ F(fLine, MidPos(fLine.N)) = 0
    /\ startInd.q = MidPos(fLine.N)

\* the interpolated line is the synthetic symmetric one
IsSymLine ==
    /\ fLine.set
    /\ ~fLine.nan
    /\ fLine.N = 50
    /\ \A s \in 0..49 : fLine.fB[s + 1] = SymDeficit(s)

\* C5 as claimed: on the synthetic line the root searches return sLow = 0
\* and sHigh = 50 and the mirror point error is not raised.
C5_SymBracketFound ==
    (IsSymLine /\ pc = "done") =>
        /\ err # "MirrorBelowGround"
        /\ startInd.def /\ startInd.q = 0
        /\ endInd.def /\ endInd.q = 4 * 50

\* C5 as amended: on the synthetic line the call ends by raising the mirror
\* point error: the second root search finds no sign change and no sHigh.
C5_SymMirrorBelowGround ==
    (IsSymLine /\ pc = "done") =>
        /\ err = "MirrorBelowGround"
        /\ result = NoResult
        /\ ~endInd.def

\* C5, reached: on the synthetic line sLow = 0 was found, the deficit is 625
\* at 25 and 49 at 49, and the call has raised the mirror point error.
C5_SymLowRootOnly ==
    /\ IsSymLine
    /\ pc = "done"
    /\ startInd.def /\ startInd.q = 0
    /\ F(fLine, MidPos(50)) = 625 /\ F(fLine, LastPos(50)) = 49
    /\ err = "MirrorBelowGround"

\* C6: the engine traces the field line with the R0 the caller gave.
C6_R0Forwarded ==
    \A i \in 1..Len(engineCalls) :
        engineCalls[i].fn = "trace_field_line2_1_" => engineCalls[i].R0 = args.R0

\* C11: given a list of energies, bounce_period returns a list of the same
\* length whose i-th element is the sum the scalar branch computes for the
\* i-th energy on the same field line, roots and resample count; given one
\* energy it returns that sum.
C11_EnergyListComponentwise ==
    (pc = "done" /\ op = "bounce_period" /\ result # NoResult) =>
        IF IsSeq(args.E)
            THEN /\ result.seq
                 /\ Len(result.Tb) = Len(args.E.data)
                 /\ \A i \in 1..Len(args.E.data) :
                       result.Tb[i] = BounceSum(fLine, startInd.q, endInd.q,
                                                args.interpNum, args.E.data[i])
            ELSE /\ ~result.seq
                 /\ result.Tb = BounceSum(fLine, startInd.q, endInd.q,
                                          args.interpNum, args.E.data[1])

\* C11, reached: a call with the list of two energies has returned two sums,
\* the first for the first energy and the second for the second.
C11_TwoEnergiesReturned ==
    /\ pc = "done"
    /\ op = "bounce_period"
    /\ IsSeq(args.E) /\ Len(args.E.data) = 2
    /\ args.E.data[1] # args.E.data[2]
    /\ result # NoResult
    /\ result.seq /\ Len(result.Tb) = 2
    /\ result.Tb[1].Ek = args.E.data[1] /\ result.Tb[2].Ek = args.E.data[2]

\* the call of bounce_period has got past the root search to line 484
ReachedResample ==
    /\ pc = "done"
    /\ op = "bounce_period"
    /\ (result # NoResult \/ err = "UnboundLocalError")

C13_XUnchanged == [][args'.X = args.X]_vars

\* C13, reached: a call for a single point, whose scalars make_lstar
\* promoted before it called the engine, has failed on an open line with X
\* still holding scalars.
C13_ScalarsKeptAfterFailure ==
    /\ pc = "done"
    /\ err = "OpenFieldLine"
    /\ Len(engineCalls) = 2
    /\ engineCalls[1].ntime = 1
    /\ ~IsSeq(args.X.dateTime)
    /\ args.X.x1.kind \in ScalarKinds
    /\ args.X.x2.kind \in ScalarKinds
    /\ args.X.x3.kind \in ScalarKinds

\* the order in which one call uses the engine
EngineOrder == <<"make_lstar1_", "trace_field_line2_1_">>

\* C16: one call of bounce_period or mirror_point_altitude calls
\* make_lstar1_ at most once and then the trace at most once, in that order;
\* both exactly once when it returns or raises the open line or the mirror
\* point error; no engine call once make_lstar's normalisation has failed,
\* and no trace once the normalisation of trace_field_line has failed.
C16_EngineOnceInOrder ==
    /\ Len(engineCalls) <= Len(EngineOrder)
    /\ \A i \in 1..Len(engineCalls) : engineCalls[i].fn = EngineOrder[i]
    /\ LstarPrep(args.X, args.maginput).status # "ok" => engineCalls = <<>>
    /\ TracePrep(args.X, args.maginput).status # "ok" => Len(engineCalls) <= 1
    /\ (pc = "done" /\ (result # NoResult
                         \/ err \in {"OpenFieldLine", "MirrorBelowGround"})) =>
            Len(engineCalls) = Len(EngineOrder)

\* C16, reached: a call has raised the mirror point error after one call of
\* make_lstar1_ and one of the trace.
C16_TwoCallsThenError ==
    /\ pc = "done"
    /\ err = "MirrorBelowGround"
    /\ Len(engineCalls) = 2
    /\ engineCalls[1].fn = "make_lstar1_"
    /\ engineCalls[2].fn = "trace_field_line2_1_"

\* C17: the root whose altitude mirror_point_altitude returns is never the
\* one at the input point itself, whatever the sign of z at startInd.
C17_OppositeHemisphere ==
    (pc = "done" /\ op = "mirror_point_altitude" /\ result # NoResult) =>
        result.root # result.own

\* C18 as claimed: for every Nposit other than -9999 the trace holds Nposit
\* positions and Nposit field magnitudes, and S is 0..Nposit-1.
C18_ExactlyNposit ==
    (traceOut.set /\ traceOut.Nposit # Sentinel) =>
        /\ traceOut.npos = traceOut.Nposit
        /\ Len(traceOut.blocal) = traceOut.Nposit
        /\ fLine.set => fLine.N = traceOut.Nposit

\* C18 as amended: the trace holds Nposit positions and field magnitudes for
\* 0 <= Nposit <= 3000, 3000 for a larger Nposit and 3000 + Nposit (or none)
\* for a negative one other than -9999; S is 0..len-1 of the trace cut once
\* more at Nposit: as long as the trace, and shorter by |Nposit| for a
\* negative Nposit.
C18_CappedAndSliced ==
    (traceOut.set /\ traceOut.Nposit # Sentinel) =>
        LET n == traceOut.Nposit
            Max0(x) == IF x < 0 THEN 0 ELSE x
            kept == IF n < 0 THEN Max0(TraceCap + n)
                    ELSE IF n > TraceCap THEN TraceCap
                    ELSE n
            lenS == IF n < 0 THEN Max0(kept + n) ELSE kept
        IN  /\ traceOut.npos = kept
            /\ Len(traceOut.blocal) = kept
            /\ fLine.set => fLine.N = lenS

\* C18, reached: for Nposit = -1 the trace holds 2999 samples and the
\* interpolants are built on S = 0..2997.
C18_NegativeCountSliced ==
    /\ traceOut.set
    /\ traceOut.Nposit = -1
    /\ Len(traceOut.blocal) = TraceCap - 1
    /\ fLine.set
    /\ fLine.N = TraceCap - 2

-----------------------------------------------------------------------------
(* The claim about calls made one after another, checked under SpecCalls. *)

\* what a new instance hands the engine as maginput for the argument d
FreshMag(d) ==
    LET r == PrepMagInput(d)
    IN  [shape |-> r.shape, vec |-> r.vec, mat |-> r.mat]

\* what a call with these arguments hands the engine on a new instance
FreshEngineCall(o, a) ==
    IF o = "make_lstar"
        THEN LET r == LstarPrep(a.X, a.maginput)
             IN  [fn |-> "make_lstar1_", ntime |-> r.ntime, x1 |-> r.x1,
                  x2 |-> r.x2, x3 |-> r.x3, maginput |-> FreshMag(a.maginput),
                  R0 |-> 0]
        ELSE [fn |-> "trace_field_line2_1_", ntime |-> 1,
              x1 |-> <<a.X.x1.data[1]>>, x2 |-> <<a.X.x2.data[1]>>,
              x3 |-> <<a.X.x3.data[1]>>, maginput |-> FreshMag(a.maginput),
              R0 |-> a.R0]

\* the exception a call with these arguments raises on a new instance
FreshErr(o, a) ==
    LET st == IF o = "make_lstar" THEN LstarPrep(a.X, a.maginput).status
              ELSE TracePrep(a.X, a.maginput).status
    IN  IF st = "ok" THEN NoErr ELSE st

-----------------------------------------------------------------------------
(* The claim about vparalel, checked under SpecV. *)

\* C15: vparalel never takes the root of a negative quantity: for every B
\* and every Bm other than zero, |B/Bm| > 1 included, what is under the root
\* is >= 0 and the value is a real number >= 0.
C15_RootNeverNegative ==
    (pc = "done" /\ op = "vparalel" /\ args.Bm # 0) =>
        /\ result.under \in {"zero", "pos"}
        /\ result.v \in {"zero", "pos"}

-----------------------------------------------------------------------------
(* The claims about _prepMagInput, checked under SpecMag. *)

\* every model input of d is a sequence, and all have the same length
AllSequences(d) ==
    /\ ~d.none
    /\ Len(d.items) > 0
    /\ \A j \in 1..Len(d.items) :
          /\ d.items[j].v.kind \in SeqKinds
          /\ Len(d.items[j].v.data) = Len(d.items[1].v.data)

\* every model input of d is a number (d may be None or empty)
AllScalars(d) ==
    d.none \/ \A j \in 1..Len(d.items) : d.items[j].v.kind \in ScalarKinds

\* d holds some values that are neither all numbers nor all sequences
MixedTypes(d) ==
    /\ ~d.none
    /\ Len(d.items) > 0
    /\ ~ \A j \in 1..Len(d.items) : d.items[j].v.kind \in ScalarKinds
    /\ ~ \A j \in 1..Len(d.items) : d.items[j].v.kind \in SeqKinds

\* C7: given sequences of M points, _prepMagInput returns a matrix whose row
\* i (one of the 17 ordered keys) has M entries, entry dt being the caller's
\* inputDict[key_i][dt] when the key was supplied and -9999 otherwise.
C7_SequenceMatrix ==
    (pc = "done" /\ op = "_prepMagInput" /\ AllSequences(args.inputDict)) =>
        LET d == args.inputDict
            M == Len(d.items[1].v.data)
        IN  /\ err = NoErr
            /\ result.kind = "maginput"
            /\ result.buf.shape = "matrix"
            /\ \A i \in 1..Len(orderedKeys) :
                  /\ Len(result.buf.mat[i]) = M
                  /\ \A t \in 1..M :
                        result.buf.mat[i][t] =
                            IF orderedKeys[i] \in DictKeys(d)
                                THEN DictGet(d, orderedKeys[i]).data[t]
                                ELSE Sentinel

\* C8: given any subset of the 17 keys with scalar values (the empty
\* dictionary and None included), _prepMagInput returns a vector whose slot i
\* holds the value supplied for key i, and -9999 when key i was not supplied.
C8_ScalarVector ==
    (pc = "done" /\ op = "_prepMagInput" /\ AllScalars(args.inputDict)) =>
        LET d == args.inputDict
        IN  /\ err = NoErr
            /\ result.kind = "maginput"
            /\ result.buf.shape = "vector"
            /\ \A i \in 1..Len(orderedKeys) :
                  result.buf.vec[i] =
                      IF ~d.none /\ orderedKeys[i] \in DictKeys(d)
                          THEN DictGet(d, orderedKeys[i]).data[1]
                          ELSE Sentinel

\* C9: _prepMagInput raises TypeError whenever the supplied values are not
\* all numbers or all sequences, whichever key carries the odd type, and
\* returns no buffer.
C9_MixedTypesRejected ==
    (pc = "done" /\ op = "_prepMagInput" /\ MixedTypes(args.inputDict)) =>
        (err = "TypeError" /\ result = NoResult)

-----------------------------------------------------------------------------
(* The claims about make_lstar, checked under SpecLstar. *)

\* dateTime, x1, x2 and x3 are sequences, not all of one length
MismatchedLengths(X) ==
    /\ IsSeq(X.dateTime) /\ IsSeq(X.x1) /\ IsSeq(X.x2) /\ IsSeq(X.x3)
    /\ \E c \in {X.x1, X.x2, X.x3} : Len(c.data) # Len(X.dateTime.data)

\* C10: when dateTime, x1, x2 and x3 are not all of one length, make_lstar
\* raises before the engine is called.
C10_LengthsChecked ==
    (pc = "done" /\ op = "make_lstar" /\ MismatchedLengths(args.X)) =>
        (err # NoErr /\ engineCalls = <<>>)

=============================================================================
